---- MODULE Spec2Model ----
(***************************************************************************)
(* HVAC control core of hag_effect-ts: the decision strategies, the XState *)
(* mode machine (hvac/hvac-machine.ts, hvac/state-machine.ts) and the      *)
(* controller that drives it (hvac/controller.ts).                         *)
(*                                                                         *)
(* Time is counted in seconds.  It advances to the next timer deadline,    *)
(* or by TickSeconds when the deadline is further away.  The monitoring    *)
(* fiber runs its cycles at arbitrary instants while it is alive.          *)
(* A JavaScript `number | undefined` slot is an integer with               *)
(* the sentinel Undefined.  Effect pipelines are read as the sequential    *)
(* composition they spell out; an exception thrown inside a flatMap /      *)
(* andThen callback is a defect, which Effect.catchAll does not catch.     *)
(***************************************************************************)
EXTENDS Integers, Sequences, FiniteSets, TLC

\* ------------------------------------------------------------------------
\* Values
\* ------------------------------------------------------------------------

Undefined == -999

\* NaN, e.g. parseFloat of a sensor state that is not a number
NotANumber == -998

TickSeconds == 900

\* Saturation point of the clocks that have no deadline of their own.
MaxAge == 300

IndoorReadings == {0, 19, 26}

\* outdoor readings the controller obtains, and those a direct client of the
\* machine may supply (the fallback value and one below the defrost threshold)
OutdoorReadings == {0, 12}

MachineOutdoorReadings == {-5, 0, 12, 20}

Hours == {7}

TargetTemps == {Undefined, 0, 23}

SystemModes == {"auto", "heat_only", "cool_only", "off"}

Actions == {"heat", "COOL", "off", "boost"}

\* hvacOptions.hvacEntities: entity ids of the controllable devices
Devices == {"climate.living_room_ac", "climate.bedroom_ac"}

\* hvacOptions.heating / hvacOptions.cooling of the two policies explored:
\* the scenario policy and one whose cooling band lies below the heating band.
\* Thresholds are whole degrees, as the readings are, and the defrost period
\* is as long as the defrost itself, so that a second defrost is within reach.
heating ==
  [temperature |-> 21, presetMode |-> "comfort",
   temperatureThresholds |->
     [indoorMin |-> 20, indoorMax |-> 22, outdoorMin |-> -10, outdoorMax |-> 15],
   defrost |-> [temperatureThreshold |-> 0, periodSeconds |-> 300, durationSeconds |-> 300]]

coolingOf(overlap) ==
  [temperature |-> 24, presetMode |-> "windFree",
   temperatureThresholds |->
     IF overlap
       THEN [indoorMin |-> 16, indoorMax |-> 18, outdoorMin |-> 10, outdoorMax |-> 45]
       ELSE [indoorMin |-> 23, indoorMax |-> 25, outdoorMin |-> 10, outdoorMax |-> 45]]

activeHours == [start |-> 8, startWeekday |-> 7, end |-> 21]

\* appOptions.dryRun is not part of ApplicationOptionsSchema; it is set only
\* by the HAG_DRY_RUN environment override.  The model covers live operation.
dryRun == FALSE

\* The configurations explored: every system mode, in automatic mode both
\* policies, the active-hours window configured, and none, one or both
\* devices enabled.
HvacOptions ==
  {o \in [systemMode : SystemModes,
          overlap : BOOLEAN,
          hasActiveHours : {TRUE},
          enabled : {{}, {"climate.living_room_ac"}, Devices}] :
     o.overlap => o.systemMode = "auto"}

\* wall clock read when the machine definition is created
BootHour == 7

BootIsWeekday == TRUE

VARIABLES
  hvacOptions,     \* configuration, immutable per run
  running,         \* ControllerState.running
  monitoring,      \* the forked monitoring fiber is alive
  haConnected,     \* HomeAssistantClient connection state
  subscribed,      \* handleStateChange is registered with the client
  machineState,    \* actor snapshot value, "stopped" when there is no actor
  context,         \* actor snapshot context (HVACContext)
  stateAge,        \* seconds since the current state was entered (after-timers)
  lastDefrost,     \* HeatingStrategy.lastDefrost as seconds ago, Undefined if never
  lastOp,          \* the operation performed by the last step and its outcome
  cmds,            \* per device, the gateway calls attempted by the last step
  fibers           \* per producer, the evaluation run in flight, when runs overlap

vars == <<hvacOptions, running, monitoring, haConnected, subscribed,
          machineState, context, stateAge, lastDefrost, lastOp, cmds, fibers>>

\* ------------------------------------------------------------------------
\* Decision strategies
\* ------------------------------------------------------------------------

\* JavaScript relational operators on `number | undefined`: a comparison with
\* NaN, or with undefined (which converts to NaN), is false
IsNumber(x) == x \notin {Undefined, NotANumber}

Lt(a, b) == IsNumber(a) /\ IsNumber(b) /\ a < b

Gt(a, b) == IsNumber(a) /\ IsNumber(b) /\ a > b

Le(a, b) == IsNumber(a) /\ IsNumber(b) /\ a <= b

Ge(a, b) == IsNumber(a) /\ IsNumber(b) /\ a >= b

\* variant whose window excludes the end hour
isActiveHour_endExcluded(opts, hour, isWeekday) ==
  IF ~opts.hasActiveHours THEN TRUE
  ELSE LET start == IF isWeekday THEN activeHours.startWeekday ELSE activeHours.start
       IN  hour >= start /\ hour < activeHours.end

isActiveHour(opts, hour, isWeekday) ==
  IF ~opts.hasActiveHours THEN TRUE
  ELSE LET start == IF isWeekday THEN activeHours.startWeekday ELSE activeHours.start
       IN  hour >= start /\ hour <= activeHours.end

\* variant that heats until indoorMax is reached
shouldHeat_belowMax(opts, data) ==
  LET thresholds == heating.temperatureThresholds IN
  IF Lt(data.weatherTemp, thresholds.outdoorMin) \/ Gt(data.weatherTemp, thresholds.outdoorMax)
    THEN FALSE
  ELSE IF ~isActiveHour(opts, data.hour, data.isWeekday) THEN FALSE
  ELSE Lt(data.currentTemp, thresholds.indoorMax)

shouldHeat(opts, data) ==
  LET thresholds == heating.temperatureThresholds IN
  IF Ge(data.currentTemp, thresholds.indoorMax) THEN FALSE
  ELSE IF Lt(data.weatherTemp, thresholds.outdoorMin) \/ Gt(data.weatherTemp, thresholds.outdoorMax)
    THEN FALSE
  ELSE IF ~isActiveHour(opts, data.hour, data.isWeekday) THEN FALSE
  ELSE Lt(data.currentTemp, thresholds.indoorMin)

shouldCool(opts, data) ==
  LET thresholds == coolingOf(opts.overlap).temperatureThresholds IN
  IF Le(data.currentTemp, thresholds.indoorMin) THEN FALSE
  ELSE IF Lt(data.weatherTemp, thresholds.outdoorMin) \/ Gt(data.weatherTemp, thresholds.outdoorMax)
    THEN FALSE
  ELSE IF ~isActiveHour(opts, data.hour, data.isWeekday) THEN FALSE
  ELSE Gt(data.currentTemp, thresholds.indoorMax)

\* variant that ignores the time of the last defrost
needsDefrost_anyTime(data, last) ==
  ~Gt(data.weatherTemp, heating.defrost.temperatureThreshold)

needsDefrost(data, last) ==
  LET defrost == heating.defrost IN
  IF Gt(data.weatherTemp, defrost.temperatureThreshold) THEN FALSE
  ELSE IF last # Undefined /\ last < defrost.periodSeconds THEN FALSE
  ELSE TRUE

\* ------------------------------------------------------------------------
\* Guards of the machine
\* ------------------------------------------------------------------------

\* JavaScript truthiness of a `number | undefined` value
Truthy(x) == x \notin {Undefined, NotANumber, 0}

StateChangeData(ctx) ==
  [currentTemp |-> ctx.indoorTemp, weatherTemp |-> ctx.outdoorTemp,
   hour |-> ctx.currentHour, isWeekday |-> ctx.isWeekday]

\* variant without the systemMode check
canHeat_ignoresMode(opts, ctx) ==
  IF ~Truthy(ctx.indoorTemp) \/ ~Truthy(ctx.outdoorTemp) THEN FALSE
  ELSE shouldHeat(opts, StateChangeData(ctx))

canHeat(opts, ctx) ==
  IF ctx.systemMode = "cool_only" \/ ctx.systemMode = "off" THEN FALSE
  ELSE IF ~Truthy(ctx.indoorTemp) \/ ~Truthy(ctx.outdoorTemp) THEN FALSE
  ELSE shouldHeat(opts, StateChangeData(ctx))

canCool(opts, ctx) ==
  IF ctx.systemMode = "heat_only" \/ ctx.systemMode = "off" THEN FALSE
  ELSE IF ~Truthy(ctx.indoorTemp) \/ ~Truthy(ctx.outdoorTemp) THEN FALSE
  ELSE shouldCool(opts, StateChangeData(ctx))

shouldAutoHeat(opts, ctx) ==
  IF ctx.systemMode # "auto" THEN FALSE
  ELSE IF ~Truthy(ctx.indoorTemp) \/ ~Truthy(ctx.outdoorTemp) THEN FALSE
  ELSE shouldHeat(opts, StateChangeData(ctx))

shouldAutoCool(opts, ctx) ==
  IF ctx.systemMode # "auto" THEN FALSE
  ELSE IF ~Truthy(ctx.indoorTemp) \/ ~Truthy(ctx.outdoorTemp) THEN FALSE
  ELSE shouldCool(opts, StateChangeData(ctx))

canDefrost(ctx, last) ==
  IF ~Truthy(ctx.indoorTemp) \/ ~Truthy(ctx.outdoorTemp) THEN FALSE
  ELSE needsDefrost(StateChangeData(ctx), last)

\* ------------------------------------------------------------------------
\* The mode machine (createHVACMachine) and its actor
\* ------------------------------------------------------------------------

RestingStates == {"idle", "heating", "cooling", "defrosting", "manualOverride"}

EventTypes == {"HEAT", "COOL", "OFF", "AUTO_EVALUATE", "DEFROST_NEEDED", "DEFROST_COMPLETE",
               "UPDATE_CONDITIONS", "UPDATE_TEMPERATURES", "MANUAL_OVERRIDE"}

\* An event together with the wall clock read while it is handled.  indoor and
\* outdoor carry the payload of UPDATE_TEMPERATURES and the data of
\* UPDATE_CONDITIONS (Undefined = field not in the partial record), as does
\* systemMode ("" = field not in the partial record).
Event(type, indoor, outdoor, hour, isWeekday) ==
  [type |-> type, indoor |-> indoor, outdoor |-> outdoor, hour |-> hour, isWeekday |-> isWeekday,
   systemMode |-> "", mode |-> "", temperature |-> Undefined]

PlainEvent(type) == Event(type, Undefined, Undefined, BootHour, BootIsWeekday)

\* { type: 'MANUAL_OVERRIDE', mode, temperature }
OverrideEvent(mode, temperature) ==
  [PlainEvent("MANUAL_OVERRIDE") EXCEPT !.mode = mode, !.temperature = temperature]

\* UPDATE_CONDITIONS whose data is { systemMode }
ConditionsEvent(systemMode) ==
  [PlainEvent("UPDATE_CONDITIONS") EXCEPT !.systemMode = systemMode]

\* machine context at construction
InitialContext(opts, hour, isWeekday) ==
  [indoorTemp |-> Undefined, outdoorTemp |-> Undefined,
   currentHour |-> hour, isWeekday |-> isWeekday, systemMode |-> opts.systemMode]

\* variant that assigns the indoor value and leaves the rest for later
updateTemperatures_indoorOnly(ctx, ev) == [ctx EXCEPT !.indoorTemp = ev.indoor]

\* { ...context, ...event.data }
updateConditions(ctx, ev) ==
  [ctx EXCEPT !.indoorTemp = IF ev.indoor = Undefined THEN @ ELSE ev.indoor,
              !.outdoorTemp = IF ev.outdoor = Undefined THEN @ ELSE ev.outdoor,
              !.systemMode = IF ev.systemMode = "" THEN @ ELSE ev.systemMode]

updateTemperatures(ctx, ev) ==
  [ctx EXCEPT !.indoorTemp = ev.indoor, !.outdoorTemp = ev.outdoor,
              !.currentHour = ev.hour, !.isWeekday = ev.isWeekday]

\* variant in which the transient state is a resting state
evaluating_rests(opts, ctx) == "evaluating"

\* states.evaluating.always: the first enabled transition wins
evaluating(opts, ctx) ==
  IF shouldAutoHeat(opts, ctx) THEN "heating"
  ELSE IF shouldAutoCool(opts, ctx) THEN "cooling"
  ELSE "idle"

\* Target of (state, event) in the `on` tables; the state itself when the
\* event is not handled there or its guard is false.
Target(opts, state, ctx, last, type) ==
  CASE state = "idle" ->
         CASE type = "HEAT" -> IF canHeat(opts, ctx) THEN "heating" ELSE state
           [] type = "COOL" -> IF canCool(opts, ctx) THEN "cooling" ELSE state
           [] type = "AUTO_EVALUATE" -> evaluating(opts, ctx)
           [] type = "MANUAL_OVERRIDE" -> "manualOverride"
           [] OTHER -> state
    [] state = "heating" ->
         CASE type = "OFF" -> "idle"
           [] type = "COOL" -> IF canCool(opts, ctx) THEN "cooling" ELSE state
           [] type = "DEFROST_NEEDED" -> IF canDefrost(ctx, last) THEN "defrosting" ELSE state
           [] type = "AUTO_EVALUATE" -> evaluating(opts, ctx)
           [] type = "MANUAL_OVERRIDE" -> "manualOverride"
           [] OTHER -> state
    [] state = "cooling" ->
         CASE type = "OFF" -> "idle"
           [] type = "HEAT" -> IF canHeat(opts, ctx) THEN "heating" ELSE state
           [] type = "AUTO_EVALUATE" -> evaluating(opts, ctx)
           [] type = "MANUAL_OVERRIDE" -> "manualOverride"
           [] OTHER -> state
    [] state = "defrosting" ->
         CASE type = "OFF" -> "idle"
           [] type = "DEFROST_COMPLETE" -> "heating"
           [] type = "MANUAL_OVERRIDE" -> "manualOverride"
           [] OTHER -> state
    [] state = "manualOverride" ->
         CASE type = "AUTO_EVALUATE" -> evaluating(opts, ctx)
           [] OTHER -> state
    [] OTHER -> state

\* (state, event) pairs whose transition has a target, i.e. exits and enters
\* a state node (restarting its after-timer) when its guard holds
Taken(opts, state, ctx, last, type) ==
  CASE state = "idle" ->
         \/ type = "HEAT" /\ canHeat(opts, ctx)
         \/ type = "COOL" /\ canCool(opts, ctx)
         \/ type \in {"AUTO_EVALUATE", "MANUAL_OVERRIDE"}
    [] state = "heating" ->
         \/ type = "COOL" /\ canCool(opts, ctx)
         \/ type = "DEFROST_NEEDED" /\ canDefrost(ctx, last)
         \/ type \in {"OFF", "AUTO_EVALUATE", "MANUAL_OVERRIDE"}
    [] state = "cooling" ->
         \/ type = "HEAT" /\ canHeat(opts, ctx)
         \/ type \in {"OFF", "AUTO_EVALUATE", "MANUAL_OVERRIDE"}
    [] state = "defrosting" -> type \in {"OFF", "DEFROST_COMPLETE", "MANUAL_OVERRIDE"}
    [] state = "manualOverride" -> type = "AUTO_EVALUATE"
    [] OTHER -> FALSE

\* variant in which defrosting takes the updates too
Assigns_inDefrosting(state, type) ==
  /\ state \in {"idle", "heating", "cooling", "defrosting", "manualOverride"}
  /\ type \in {"UPDATE_CONDITIONS", "UPDATE_TEMPERATURES"}

\* (state, event) pairs with an action-only transition that assigns the context
Assigns(state, type) ==
  /\ state \in {"idle", "heating", "cooling", "manualOverride"}
  /\ type \in {"UPDATE_CONDITIONS", "UPDATE_TEMPERATURES"}

\* The actor as a value: snapshot, the running after-timer and the
\* strategy's lastDefrost.
Actor(state, ctx, age, last) ==
  [state |-> state, context |-> ctx, age |-> age, lastDefrost |-> last]

\* delay of the after-timer of a state, Undefined when it has none
AfterDelay(state) ==
  CASE state \in {"heating", "cooling"} -> 300
    [] state = "defrosting" -> heating.defrost.durationSeconds
    [] state = "manualOverride" -> 1800
    [] OTHER -> Undefined

\* variant in which entering defrosting does not run startDefrost
Enter_noStartDefrost(a, state) == [a EXCEPT !.state = state, !.age = 0]

\* entry of a state node: the after-timer starts, defrosting runs startDefrost
Enter(a, state) ==
  [a EXCEPT !.state = state, !.age = 0,
            !.lastDefrost = IF state = "defrosting" THEN 0 ELSE @]

\* variant in which OFF is guarded: heating is kept while canHeat holds
Transition_offGuarded(opts, a, ev) ==
  IF ev.type = "OFF" /\ a.state = "heating" /\ canHeat(opts, a.context)
    THEN a
  ELSE IF Taken(opts, a.state, a.context, a.lastDefrost, ev.type)
    THEN Enter(a, Target(opts, a.state, a.context, a.lastDefrost, ev.type))
  ELSE IF Assigns(a.state, ev.type)
    THEN [a EXCEPT !.context = IF ev.type = "UPDATE_TEMPERATURES"
                                   THEN updateTemperatures(@, ev)
                                   ELSE updateConditions(@, ev)]
  ELSE a

\* variant in which MANUAL_OVERRIDE enters manualOverride from every state
Transition_overrideReenters(opts, a, ev) ==
  IF ev.type = "MANUAL_OVERRIDE" /\ a.state # "stopped"
    THEN Enter(a, "manualOverride")
  ELSE IF Taken(opts, a.state, a.context, a.lastDefrost, ev.type)
    THEN Enter(a, Target(opts, a.state, a.context, a.lastDefrost, ev.type))
  ELSE IF Assigns(a.state, ev.type)
    THEN [a EXCEPT !.context = IF ev.type = "UPDATE_TEMPERATURES"
                                   THEN updateTemperatures(@, ev)
                                   ELSE updateConditions(@, ev)]
  ELSE a

\* actor.send(event) on a running actor
Transition(opts, a, ev) ==
  IF Taken(opts, a.state, a.context, a.lastDefrost, ev.type)
    THEN Enter(a, Target(opts, a.state, a.context, a.lastDefrost, ev.type))
  ELSE IF Assigns(a.state, ev.type)
    THEN [a EXCEPT !.context = IF ev.type = "UPDATE_TEMPERATURES"
                                   THEN updateTemperatures(@, ev)
                                   ELSE updateConditions(@, ev)]
  ELSE a

\* variant in which the timer of heating and cooling only restarts itself
AfterFired_restarts(opts, a) ==
  CASE a.state \in {"heating", "cooling"} -> Enter(a, a.state)
    [] a.state = "manualOverride" -> Enter(a, evaluating(opts, a.context))
    [] a.state = "defrosting" -> Enter(a, "heating")
    [] OTHER -> a

\* variant in which the auto-revert starts from the construction-time context
AfterFired_freshContext(opts, a) ==
  CASE a.state \in {"heating", "cooling"} -> Enter(a, evaluating(opts, a.context))
    [] a.state = "manualOverride" ->
         Enter([a EXCEPT !.context = InitialContext(opts, a.context.currentHour,
                                                    a.context.isWeekday)], "idle")
    [] a.state = "defrosting" -> Enter(a, "heating")
    [] OTHER -> a

\* the after-timer of the current state fires
AfterFired(opts, a) ==
  CASE a.state \in {"heating", "cooling", "manualOverride"} ->
         Enter(a, evaluating(opts, a.context))
    [] a.state = "defrosting" -> Enter(a, "heating")
    [] OTHER -> a

\* ------------------------------------------------------------------------
\* Controller helpers
\* ------------------------------------------------------------------------

FallbackOutdoor == 20

\* outcome of reading a sensor through the gateway
ReadFailed == -997

\* variant that resolves no mode for idle
getCurrentHVACMode_idleUndefined(currentState) ==
  CASE currentState \in {"heating", "defrosting"} -> "heat"
    [] currentState = "cooling" -> "cool"
    [] OTHER -> "none"

getCurrentHVACMode(currentState) ==
  CASE currentState \in {"heating", "defrosting"} -> "heat"
    [] currentState = "cooling" -> "cool"
    [] currentState = "idle" -> "off"
    [] OTHER -> "none"

\* "invalid" stands for the thrown validation error
toLowerCase(action) == IF action = "COOL" THEN "cool" ELSE action

parseHVACMode(action) ==
  CASE toLowerCase(action) = "heat" -> "heat"
    [] toLowerCase(action) = "cool" -> "cool"
    [] toLowerCase(action) = "off" -> "off"
    [] OTHER -> "invalid"

Call(service, mode, temperature, preset, ok) ==
  [service |-> service, hvac_mode |-> mode, temperature |-> temperature,
   preset_mode |-> preset, ok |-> ok]

\* Gateway calls attempted for one entity; failAt = k > 0 makes the k-th call
\* fail, which ends the sequence for this entity.
controlHVACEntity(opts, mode, targetTemp, failAt) ==
  LET temperature == IF Truthy(targetTemp) THEN targetTemp
                     ELSE IF mode = "heat" THEN heating.temperature
                     ELSE coolingOf(opts.overlap).temperature
      presetMode == IF mode = "heat" THEN heating.presetMode
                    ELSE coolingOf(opts.overlap).presetMode
      calls == IF dryRun THEN << >>
               ELSE IF mode # "off"
                 THEN << Call("set_hvac_mode", mode, Undefined, "", failAt # 1),
                         Call("set_temperature", "", temperature, "", failAt # 2),
                         Call("set_preset_mode", "", Undefined, presetMode, failAt # 3) >>
               ELSE << Call("set_hvac_mode", mode, Undefined, "", failAt # 1) >>
  IN  IF failAt \in 1..Len(calls) THEN SubSeq(calls, 1, failAt) ELSE calls

\* variant that controls every configured entity
executeHVACMode_allEntities(opts, hvacMode, targetTemp, failAt) ==
  [d \in Devices |-> controlHVACEntity(opts, hvacMode, targetTemp, failAt[d])]

\* variant in which a failure for one entity ends the whole batch
executeHVACMode_failFast(opts, hvacMode, targetTemp, failAt) ==
  [d \in Devices |->
     IF d \in opts.enabled /\ \A e \in opts.enabled \ {d} : failAt[e] = 0
       THEN controlHVACEntity(opts, hvacMode, targetTemp, failAt[d])
     ELSE << >>]

\* Every enabled entity is controlled, each on its own; a failure is caught
\* per entity.
executeHVACMode(opts, hvacMode, targetTemp, failAt) ==
  [d \in Devices |->
     IF d \in opts.enabled THEN controlHVACEntity(opts, hvacMode, targetTemp, failAt[d])
     ELSE << >>]

NoCalls == [d \in Devices |-> << >>]

\* variant that actuates whenever a mode is resolved
evaluateAndExecute_always(opts, a) ==
  IF a.state = "stopped"
    THEN [actor |-> a, ran |-> FALSE, before |-> a.state, after |-> a.state, mode |-> "none"]
  ELSE LET b == Transition(opts, a, PlainEvent("AUTO_EVALUATE"))
       IN  [actor |-> b, ran |-> TRUE, before |-> a.state, after |-> b.state,
            mode |-> getCurrentHVACMode(b.state)]

\* variant that asks a heating machine for a defrost after the evaluation
evaluateAndExecute_defrosts(opts, a) ==
  IF a.state = "stopped"
    THEN [actor |-> a, ran |-> FALSE, before |-> a.state, after |-> a.state, mode |-> "none"]
  ELSE LET b == Transition(opts, Transition(opts, a, PlainEvent("AUTO_EVALUATE")),
                           PlainEvent("DEFROST_NEEDED"))
       IN  [actor |-> b, ran |-> TRUE, before |-> a.state, after |-> b.state,
            mode |-> IF getCurrentHVACMode(b.state) # "none" /\ a.state # b.state
                       THEN getCurrentHVACMode(b.state) ELSE "none"]

\* Result of evaluateAndExecute on actor a: snapshot, AUTO_EVALUATE, snapshot,
\* then the decision to actuate.  With no actor getStatus fails and the
\* failure is swallowed.
evaluateAndExecute(opts, a) ==
  IF a.state = "stopped"
    THEN [actor |-> a, ran |-> FALSE, before |-> a.state, after |-> a.state, mode |-> "none"]
  ELSE LET previousStatus == a.state
           b == Transition(opts, a, PlainEvent("AUTO_EVALUATE"))
           currentStatus == b.state
           hvacMode == getCurrentHVACMode(currentStatus)
       IN  [actor |-> b, ran |-> TRUE, before |-> previousStatus, after |-> currentStatus,
            mode |-> IF hvacMode # "none"
                        /\ (previousStatus # currentStatus \/ currentStatus = "manualOverride")
                       THEN hvacMode ELSE "none"]

\* variant whose previous snapshot dates from an idle machine, as if taken
\* before another run's events
UpdateThenEvaluate_earlySnapshot(opts, a, indoor, outdoor, hour, isWeekday) ==
  IF a.state = "stopped"
    THEN [actor |-> a, ran |-> FALSE, before |-> a.state, after |-> a.state, mode |-> "none"]
  ELSE LET r == evaluateAndExecute(opts,
                  Transition(opts, a, Event("UPDATE_TEMPERATURES", indoor, outdoor,
                                            hour, isWeekday)))
       IN  [r EXCEPT !.before = "idle",
                     !.mode = IF r.after # "idle" THEN getCurrentHVACMode(r.after)
                              ELSE "none"]

\* updateStateMachineTemperatures followed by evaluateAndExecute, the common
\* tail of processStateChangeDirect and evaluateStateMachineDirect
UpdateThenEvaluate(opts, a, indoor, outdoor, hour, isWeekday) ==
  IF a.state = "stopped"
    THEN [actor |-> a, ran |-> FALSE, before |-> a.state, after |-> a.state, mode |-> "none"]
  ELSE evaluateAndExecute(opts,
         Transition(opts, a, Event("UPDATE_TEMPERATURES", indoor, outdoor, hour, isWeekday)))

\* variant whose fallback is 0
OutdoorOrFallback_zero(outdoorRead) ==
  IF outdoorRead \in {ReadFailed, NotANumber} THEN 0 ELSE outdoorRead

OutdoorOrFallback(outdoorRead) ==
  IF outdoorRead \in {ReadFailed, NotANumber} THEN FallbackOutdoor ELSE outdoorRead

\* variant that evaluates on the old context when there is no indoor value
evaluateStateMachineDirect_evaluatesAnyway(opts, a, indoorRead, outdoorRead, hour, isWeekday) ==
  IF a.state = "stopped"
    THEN [actor |-> a, ran |-> FALSE, before |-> a.state, after |-> a.state, mode |-> "none"]
  ELSE IF indoorRead \in {ReadFailed, NotANumber}
    THEN evaluateAndExecute(opts, a)
  ELSE UpdateThenEvaluate(opts, a, indoorRead, OutdoorOrFallback(outdoorRead), hour, isWeekday)

\* evaluateStateMachineDirect: both sensors are read; without a numeric
\* indoor value the cycle ends before anything is sent.
evaluateStateMachineDirect(opts, a, indoorRead, outdoorRead, hour, isWeekday) ==
  IF indoorRead \in {ReadFailed, NotANumber}
    THEN [actor |-> a, ran |-> FALSE, before |-> a.state, after |-> a.state, mode |-> "none"]
  ELSE UpdateThenEvaluate(opts, a, indoorRead, OutdoorOrFallback(outdoorRead), hour, isWeekday)

\* ------------------------------------------------------------------------
\* State
\* ------------------------------------------------------------------------

\* the two producers of evaluation runs: the state_changed handler and the
\* monitoring fiber
Producers == {"sensor", "monitor"}

\* a producer with no run in flight
NoRunInFlight ==
  [pc |-> "idle", indoor |-> Undefined, outdoor |-> Undefined, isWeekday |-> BootIsWeekday,
   mode |-> "none"]

NoFibers == [f \in Producers |-> NoRunInFlight]

\* createMachine(...).context
machine == InitialContext(hvacOptions, BootHour, BootIsWeekday)

CurrentActor == Actor(machineState, context, stateAge, lastDefrost)

\* HVACStateMachineImpl.getStatus
MachineStatus ==
  [currentState |-> machineState, context |-> context,
   canHeat |-> context.systemMode \notin {"cool_only", "off"},
   canCool |-> context.systemMode \notin {"heat_only", "off"},
   systemMode |-> context.systemMode]

\* the forced mode and temperature as far as a status holds them
ForcedMode(status) ==
  IF "mode" \in DOMAIN status.context THEN status.context.mode ELSE "none"

ForcedTemperature(status) ==
  IF "temperature" \in DOMAIN status.context THEN status.context.temperature ELSE Undefined

\* The actor's snapshot and timer are kept in normal form: no actor means the
\* construction-time context, a state without after-timer means age 0.
SetActor(a) ==
  /\ machineState' = a.state
  /\ context' = IF a.state = "stopped" THEN machine ELSE a.context
  /\ stateAge' = IF AfterDelay(a.state) = Undefined THEN 0 ELSE a.age
  /\ lastDefrost' = a.lastDefrost

Stopped(a) == Actor("stopped", machine, 0, a.lastDefrost)

\* interpret(machine).start()
Started(a) == Actor("idle", machine, 0, a.lastDefrost)

\* lastOp: the operation and its argument (for start and stop, the running
\* flag it read), how it ended for its caller
\* ("ok", a typed failure or failure result "fail", or a defect), whether
\* evaluateAndExecute ran and directly followed a run that left the same
\* context, the machine state the operation found, the mode handed to
\* executeHVACMode ("none" if it was not called), the explicit target
\* temperature, and the event types sent to the machine.
Op(op, arg, result, r, target, sent) ==
  [op |-> op, arg |-> arg, result |-> result, ran |-> r.ran,
   again |-> r.ran /\ lastOp.ran /\ r.actor.context = context,
   before |-> r.before, mode |-> r.mode, target |-> target, sent |-> sent]

\* an operation that never reaches evaluateAndExecute
NoRun(a) == [actor |-> a, ran |-> FALSE, before |-> a.state, after |-> a.state, mode |-> "none"]

\* events a run of update-then-evaluate has sent to the machine
SentBy(r) == IF r.ran THEN << "UPDATE_TEMPERATURES", "AUTO_EVALUATE" >> ELSE << >>

NoFailure == [d \in Devices |-> 0]

\* gateway behaviours during one actuation batch: all calls succeed, or the
\* second call for the first device fails
Failures(opts) ==
  {NoFailure} \cup {[NoFailure EXCEPT !["climate.living_room_ac"] = k] :
                      k \in IF "climate.living_room_ac" \in opts.enabled THEN {2} ELSE {}}

NoReading == ReadFailed

SensorReads == IndoorReadings \cup {NoReading}

OutdoorReads == OutdoorReadings \cup {NoReading}

\* what one evaluation cycle reads: both sensors and the wall clock
Readings == [indoor : SensorReads, outdoor : OutdoorReads, hour : Hours, isWeekday : BOOLEAN]

Init ==
  /\ hvacOptions \in HvacOptions
  /\ running = FALSE
  /\ monitoring = FALSE
  /\ haConnected = FALSE
  /\ subscribed = FALSE
  /\ machineState = "stopped"
  /\ context = machine
  /\ stateAge = 0
  /\ lastDefrost = Undefined
  /\ lastOp = [op |-> "init", arg |-> "", result |-> "ok", ran |-> FALSE, again |-> FALSE,
               before |-> "stopped", mode |-> "none", target |-> Undefined, sent |-> << >>]
  /\ cmds = NoCalls
  /\ fibers = NoFibers

\* ------------------------------------------------------------------------
\* Controller operations
\* ------------------------------------------------------------------------

\* the calls of executeHVACMode(mode, target) under some gateway behaviour
Actuate(mode, target) ==
  /\ IF mode = "none" THEN cmds' = NoCalls
     ELSE \E failAt \in Failures(hvacOptions) :
            cmds' = executeHVACMode(hvacOptions, mode, target, failAt)
  /\ UNCHANGED fibers

\* an operation that leaves the machine alone and actuates nothing
Refused(op, arg, result, target) ==
  /\ lastOp' = Op(op, arg, result, NoRun(CurrentActor), target, << >>)
  /\ cmds' = NoCalls
  /\ UNCHANGED fibers
  /\ UNCHANGED <<hvacOptions, running, monitoring, haConnected, subscribed,
                 machineState, context, stateAge, lastDefrost>>

\* stop(): running off, interruption of the monitoring fiber requested in a
\* forked fiber (stop does not wait for it, so the monitor is gone by the
\* time stop returns or still alive), actor stopped, gateway disconnected
\* (which drops the event handlers)
StopEffects ==
  /\ running' = FALSE
  /\ \E alive \in {FALSE, monitoring} : monitoring' = alive
  /\ haConnected' = FALSE
  /\ subscribed' = FALSE
  /\ SetActor(Stopped(CurrentActor))

\* variant that fails and rolls back
alreadyRunning_fails ==
  /\ StopEffects
  /\ lastOp' = Op("start", "running", "fail", NoRun(CurrentActor), Undefined, << >>)
  /\ cmds' = NoCalls
  /\ UNCHANGED fibers
  /\ UNCHANGED hvacOptions

\* start() when state.running: a warning is logged and the effect succeeds
alreadyRunning == Refused("start", "running", "ok", Undefined)

\* variant whose failure path leaves the partial start in place
startController_noRollback(failing, rd) ==
  /\ failing # "none" \/ machineState # "stopped"
  /\ Refused("start", "stopped", "fail", Undefined)

\* start() otherwise; failing names the step that fails ("none": no step does)
startController(failing, rd) ==
  IF failing # "none" \/ machineState # "stopped"
    THEN /\ StopEffects
         /\ lastOp' = Op("start", "stopped", "fail", NoRun(CurrentActor), Undefined, << >>)
         /\ cmds' = NoCalls
         /\ UNCHANGED fibers
         /\ UNCHANGED hvacOptions
  ELSE LET r == evaluateStateMachineDirect(hvacOptions, Started(CurrentActor),
                                           rd.indoor, rd.outdoor, rd.hour, rd.isWeekday)
       IN  /\ haConnected' = TRUE
           /\ subscribed' = TRUE
           /\ monitoring' = TRUE
           /\ running' = TRUE
           /\ SetActor(r.actor)
           /\ lastOp' = Op("start", "stopped", "ok", r, Undefined, SentBy(r))
           /\ Actuate(r.mode, Undefined)
           /\ UNCHANGED hvacOptions

start(failing, rd) == IF running THEN alreadyRunning ELSE startController(failing, rd)

\* variant that refuses to stop a controller that is not running
stop_refusesWhenStopped ==
  IF running
    THEN /\ StopEffects
         /\ lastOp' = Op("stop", "running", "ok", NoRun(CurrentActor), Undefined, << >>)
         /\ cmds' = NoCalls
         /\ UNCHANGED fibers
         /\ UNCHANGED hvacOptions
  ELSE Refused("stop", "stopped", "fail", Undefined)

\* stop(); the argument recorded is the running flag it found
stop ==
  /\ StopEffects
  /\ lastOp' = Op("stop", IF running THEN "running" ELSE "stopped", "ok",
                  NoRun(CurrentActor), Undefined, << >>)
  /\ cmds' = NoCalls
  /\ UNCHANGED fibers
  /\ UNCHANGED hvacOptions

\* an orchestrator operation that ends after the run r of update-then-evaluate
EvaluatedWith(op, arg, result, r) ==
  /\ SetActor(r.actor)
  /\ lastOp' = Op(op, arg, result, r, Undefined, SentBy(r))
  /\ Actuate(r.mode, Undefined)
  /\ UNCHANGED <<hvacOptions, running, monitoring, haConnected, subscribed>>

Evaluated(op, result, r) == EvaluatedWith(op, "", result, r)

\* what the sensor reads of one cycle came to: no indoor value, an indoor
\* value with the outdoor fallback, or both values
ReadOutcome(indoorRead, outdoorRead) ==
  IF indoorRead \in {ReadFailed, NotANumber} THEN "no indoor value"
  ELSE IF outdoorRead \in {ReadFailed, NotANumber} THEN "outdoor fallback"
  ELSE "both values"

\* one iteration of the forked monitoring fiber; getState fails on a
\* gateway that is not connected
monitoringLoop(rd) ==
  /\ monitoring
  /\ LET indoorRead == IF haConnected THEN rd.indoor ELSE ReadFailed
         outdoorRead == IF haConnected THEN rd.outdoor ELSE ReadFailed
     IN  EvaluatedWith("monitor", ReadOutcome(indoorRead, outdoorRead), "ok",
                       evaluateStateMachineDirect(hvacOptions, CurrentActor,
                                                  indoorRead, outdoorRead,
                                                  rd.hour, rd.isWeekday))

\* the fiber forked by stopMonitoringLoop gets to run Fiber.interrupt
monitorInterrupted ==
  /\ monitoring
  /\ ~running
  /\ monitoring' = FALSE
  /\ lastOp' = Op("interrupt", "", "ok", NoRun(CurrentActor), Undefined, << >>)
  /\ cmds' = NoCalls
  /\ UNCHANGED fibers
  /\ UNCHANGED <<hvacOptions, running, haConnected, subscribed,
                 machineState, context, stateAge, lastDefrost>>

\* variant without the running check
triggerEvaluation_unchecked(rd) ==
  Evaluated("triggerEvaluation", "ok",
            evaluateStateMachineDirect(hvacOptions, CurrentActor,
                                       rd.indoor, rd.outdoor, rd.hour, rd.isWeekday))

\* triggerEvaluation(): a controller that is not running answers
\* {success: false}
triggerEvaluation(rd) ==
  IF ~running
    THEN Refused("triggerEvaluation", "", "fail", Undefined)
    ELSE Evaluated("triggerEvaluation", "ok",
                   evaluateStateMachineDirect(hvacOptions, CurrentActor,
                                              rd.indoor, rd.outdoor, rd.hour, rd.isWeekday))

\* handleStateChange for a state_changed event.  kind tells what the event
\* is about: another entity, the indoor sensor without a new state, with a
\* state that is not a number, or with the number rd.indoor.
SensorEventKinds == {"other", "noNewState", "notANumber", "number"}

\* variant that runs evaluate-and-execute on every event
handleStateChange_alwaysEvaluates(kind, rd) ==
  /\ subscribed
  /\ haConnected
  /\ EvaluatedWith("sensor", kind, "ok", evaluateAndExecute(hvacOptions, CurrentActor))

handleStateChange(kind, rd) ==
  /\ subscribed
  /\ haConnected
  /\ LET newTemp == IF kind = "number" THEN rd.indoor ELSE NotANumber
     IN  IF kind \in {"other", "noNewState"} \/ newTemp = NotANumber
           THEN EvaluatedWith("sensor", kind, "ok", NoRun(CurrentActor))
           ELSE EvaluatedWith("sensor", ReadOutcome(newTemp, rd.outdoor), "ok",
                              UpdateThenEvaluate(hvacOptions, CurrentActor, newTemp,
                                                 OutdoorOrFallback(rd.outdoor),
                                                 rd.hour, rd.isWeekday))

\* the direct path of manualOverride, in program order: the devices are
\* commanded, then the event is sent to the machine
DirectOverride == << "executeHVACMode", "stateMachineManualOverride" >>

\* manualOverride(action, {temperature}).  parseHVACMode throws inside the
\* flatMap callback, which makes the effect die instead of fail.  A send
\* that fails comes after the devices were commanded.
manualOverride(action, temperature) ==
  LET a == CurrentActor
      mode == parseHVACMode(action)
      r == [NoRun(a) EXCEPT !.mode = mode]
  IN  IF ~running
        THEN Refused("manualOverride", action, "fail", temperature)
      ELSE IF mode = "invalid"
        THEN Refused("manualOverride", action, "defect", temperature)
      ELSE /\ UNCHANGED <<hvacOptions, running, monitoring, haConnected, subscribed>>
           /\ Actuate(mode, temperature)
           /\ IF a.state = "stopped"
                THEN /\ lastOp' = Op("manualOverride", action, "fail", r, temperature, << >>)
                                     @@ [order |-> DirectOverride]
                     /\ SetActor(a)
                ELSE /\ lastOp' = Op("manualOverride", action, "ok", r, temperature,
                                     << "MANUAL_OVERRIDE" >>)
                                     @@ [order |-> DirectOverride]
                     /\ SetActor(Transition(hvacOptions, a, OverrideEvent(mode, temperature)))

\* ------------------------------------------------------------------------
\* The state machine service used on its own, timers and time
\* ------------------------------------------------------------------------

\* an operation on the machine alone
MachineOp(op, arg, result, sent, a) ==
  /\ lastOp' = Op(op, arg, result, NoRun(CurrentActor), Undefined, sent)
  /\ SetActor(a)
  /\ cmds' = NoCalls
  /\ UNCHANGED fibers
  /\ UNCHANGED <<hvacOptions, running, monitoring, haConnected, subscribed>>

\* HVACStateMachineImpl.start, called by a client of the service
machineStart ==
  IF machineState # "stopped"
    THEN MachineOp("machine.start", "", "fail", << >>, CurrentActor)
    ELSE MachineOp("machine.start", "", "ok", << >>, Started(CurrentActor))

\* HVACStateMachineImpl.stop
machineStop == MachineOp("machine.stop", "", "ok", << >>, Stopped(CurrentActor))

\* HVACStateMachineImpl.send(event)
send(ev) ==
  IF machineState = "stopped"
    THEN MachineOp("machine.send", ev.type, "fail", << >>, CurrentActor)
    ELSE MachineOp("machine.send", ev.type, "ok", << ev.type >>,
                   Transition(hvacOptions, CurrentActor, ev))

TimerDue == AfterDelay(machineState) # Undefined /\ stateAge = AfterDelay(machineState)

\* the after-timer of the current state fires
after ==
  /\ TimerDue
  /\ MachineOp("after", "", "ok", << >>, AfterFired(hvacOptions, CurrentActor))

Min(x, y) == IF x < y THEN x ELSE y

\* time passes up to the deadline of the state's timer, TickSeconds at most
Tick ==
  /\ ~TimerDue
  /\ machineState # "stopped"
  /\ LET step == IF AfterDelay(machineState) = Undefined THEN TickSeconds
                 ELSE Min(TickSeconds, AfterDelay(machineState) - stateAge)
     IN  /\ stateAge' = IF AfterDelay(machineState) = Undefined THEN 0 ELSE stateAge + step
         /\ lastDefrost' = IF lastDefrost = Undefined THEN Undefined
                           ELSE Min(lastDefrost + step, MaxAge)
  /\ lastOp' = Op("tick", "", "ok", NoRun(CurrentActor), Undefined, << >>)
  /\ cmds' = NoCalls
  /\ UNCHANGED fibers
  /\ UNCHANGED <<hvacOptions, running, monitoring, haConnected, subscribed,
                 machineState, context>>

\* system modes a client puts into the data of UPDATE_CONDITIONS
ConditionModes == {"auto", "off"}

DirectEvents ==
  {PlainEvent(t) : t \in {"HEAT", "COOL", "OFF", "AUTO_EVALUATE", "DEFROST_NEEDED",
                          "DEFROST_COMPLETE", "MANUAL_OVERRIDE"}}
  \cup {Event("UPDATE_TEMPERATURES", i, o, h, w) :
          i \in IndoorReadings, o \in MachineOutdoorReadings,
          h \in Hours, w \in BOOLEAN}
  \cup {Event("UPDATE_CONDITIONS", i, o, BootHour, BootIsWeekday) :
          i \in IndoorReadings, o \in MachineOutdoorReadings}
  \cup {ConditionsEvent(m) : m \in ConditionModes}

\* inputs that make no difference to an operation are not enumerated
OneReading == {[indoor |-> NoReading, outdoor |-> NoReading, hour |-> BootHour,
                isWeekday |-> BootIsWeekday]}

\* the controller and the machine it drives
Next ==
  \/ \E failing \in {"none", "connect", "subscribe"} :
       \E rd \in IF running \/ failing # "none" THEN OneReading ELSE Readings :
         start(failing, rd)
  \/ stop
  \/ \E rd \in IF haConnected THEN Readings ELSE OneReading : monitoringLoop(rd)
  \/ monitorInterrupted
  \/ \E rd \in IF running THEN Readings ELSE OneReading : triggerEvaluation(rd)
  \/ \E kind \in SensorEventKinds :
       \E rd \in IF kind = "number" THEN {r \in Readings : r.indoor # NoReading} ELSE OneReading :
         handleStateChange(kind, rd)
  \/ \E action \in Actions, t \in TargetTemps : manualOverride(action, t)
  \/ after
  \/ Tick

Spec == Init /\ [][Next]_vars

\* the state machine service driven directly by a client
MachineInit == Init /\ hvacOptions.enabled = Devices

MachineNext ==
  \/ machineStart
  \/ machineStop
  \/ \E ev \in DirectEvents : send(ev)
  \/ after
  \/ Tick

MachineSpec == MachineInit /\ [][MachineNext]_vars

\* the controller's life cycle next to a client that starts and stops the
\* machine service itself
LifecycleNext ==
  \/ \E failing \in {"none", "connect", "subscribe"} :
       \E rd \in IF running \/ failing # "none" THEN OneReading ELSE Readings :
         start(failing, rd)
  \/ stop
  \/ \E rd \in IF haConnected THEN Readings ELSE OneReading : monitoringLoop(rd)
  \/ monitorInterrupted
  \/ machineStart
  \/ machineStop
  \/ after
  \/ Tick

LifecycleSpec == Init /\ [][LifecycleNext]_vars

\* ------------------------------------------------------------------------
\* The defrost cycle of the machine service, with time passing in short steps
\* ------------------------------------------------------------------------

DefrostStep == 100

\* time passes, up to the deadline of the state's timer
Wait(seconds) ==
  /\ ~TimerDue
  /\ machineState # "stopped"
  /\ LET step == IF AfterDelay(machineState) = Undefined THEN seconds
                 ELSE Min(seconds, AfterDelay(machineState) - stateAge)
     IN  /\ stateAge' = IF AfterDelay(machineState) = Undefined THEN 0 ELSE stateAge + step
         /\ lastDefrost' = IF lastDefrost = Undefined THEN Undefined
                           ELSE Min(lastDefrost + step, MaxAge)
  /\ lastOp' = Op("tick", "", "ok", NoRun(CurrentActor), Undefined, << >>)
  /\ cmds' = NoCalls
  /\ UNCHANGED fibers
  /\ UNCHANGED <<hvacOptions, running, monitoring, haConnected, subscribed,
                 machineState, context>>

DefrostEvents ==
  {PlainEvent(t) : t \in {"HEAT", "DEFROST_NEEDED", "DEFROST_COMPLETE"}}
  \cup {Event("UPDATE_TEMPERATURES", 19, o, BootHour, BootIsWeekday) :
          o \in MachineOutdoorReadings}

DefrostNext ==
  \/ machineStart
  \/ \E ev \in DefrostEvents : send(ev)
  \/ after
  \/ Wait(DefrostStep)

DefrostSpec == MachineInit /\ [][DefrostNext]_vars

\* ------------------------------------------------------------------------
\* The machine service under manual overrides
\* ------------------------------------------------------------------------

OverrideEvents ==
  {PlainEvent(t) : t \in {"HEAT", "COOL", "OFF", "AUTO_EVALUATE"}}
  \cup {OverrideEvent("heat", Undefined), OverrideEvent("cool", 23)}
  \cup {Event("UPDATE_TEMPERATURES", i, 12, BootHour, BootIsWeekday) : i \in {19, 26}}
  \cup {Event("UPDATE_CONDITIONS", 21, Undefined, BootHour, BootIsWeekday)}

OverrideNext ==
  \/ machineStart
  \/ \E ev \in OverrideEvents : send(ev)
  \/ after
  \/ Tick

OverrideSpec == MachineInit /\ [][OverrideNext]_vars

\* ------------------------------------------------------------------------
\* The controller between operations: time passes and the machine's timers
\* fire while the devices keep what the last operation commanded.
\* ------------------------------------------------------------------------

\* time passes up to the deadline of the state's timer; no operation is
\* performed, so the record of the last one stays
TimePasses ==
  /\ ~TimerDue
  /\ machineState # "stopped"
  /\ AfterDelay(machineState) # Undefined
  /\ LET step == Min(TickSeconds, AfterDelay(machineState) - stateAge)
     IN  /\ stateAge' = stateAge + step
         /\ lastDefrost' = IF lastDefrost = Undefined THEN Undefined
                           ELSE Min(lastDefrost + step, MaxAge)
  /\ UNCHANGED <<hvacOptions, running, monitoring, haConnected, subscribed,
                 machineState, context, lastOp, cmds, fibers>>

FollowReadings ==
  [indoor : {19, 26}, outdoor : {-5, 12}, hour : Hours, isWeekday : {BootIsWeekday}]

FollowNext ==
  \/ \E rd \in IF running THEN OneReading ELSE FollowReadings : start("none", rd)
  \/ \E rd \in FollowReadings : handleStateChange("number", rd)
  \/ \E rd \in FollowReadings : monitoringLoop(rd)
  \/ \E rd \in FollowReadings : triggerEvaluation(rd)
  \/ \E action \in {"heat", "cool", "off"} : manualOverride(action, Undefined)
  \/ after
  \/ TimePasses

\* automatic mode, both devices enabled
FollowInit ==
  /\ Init
  /\ hvacOptions = [systemMode |-> "auto", overlap |-> FALSE, hasActiveHours |-> TRUE,
                    enabled |-> Devices]

FollowSpec == FollowInit /\ [][FollowNext]_vars

\* ------------------------------------------------------------------------
\* The controller next to a client of the machine service that asks for
\* defrosts
\* ------------------------------------------------------------------------

SharedEvents ==
  {PlainEvent(t) : t \in {"DEFROST_NEEDED", "DEFROST_COMPLETE", "OFF", "AUTO_EVALUATE",
                          "MANUAL_OVERRIDE"}}
  \cup {Event("UPDATE_TEMPERATURES", 26, 12, BootHour, BootIsWeekday),
        Event("UPDATE_CONDITIONS", 21, Undefined, BootHour, BootIsWeekday)}

SharedNext ==
  \/ \E rd \in IF running THEN OneReading ELSE FollowReadings : start("none", rd)
  \/ \E rd \in FollowReadings : handleStateChange("number", rd)
  \/ \E rd \in FollowReadings : monitoringLoop(rd)
  \/ \E ev \in SharedEvents : send(ev)
  \/ after
  \/ Tick

SharedSpec == FollowInit /\ [][SharedNext]_vars

\* ------------------------------------------------------------------------
\* Overlapping evaluation runs.  A run of the state_changed handler or of the
\* monitoring fiber waits for the gateway while it reads the sensors and
\* while it commands the devices; between the two it updates the machine
\* and evaluates without giving up control.
\* ------------------------------------------------------------------------

ConcurrentIndoor == {19, 26}

ConcurrentOutdoor == {12, ReadFailed}

ConcurrentReadings ==
  [indoor : ConcurrentIndoor, outdoor : ConcurrentOutdoor, hour : Hours, isWeekday : BOOLEAN]

\* a step of a run that neither touches the machine nor commands a device
RunStep(f, arg, run) ==
  /\ lastOp' = Op(f, arg, "ok", NoRun(CurrentActor), Undefined, << >>)
  /\ cmds' = NoCalls
  /\ fibers' = [fibers EXCEPT ![f] = run]
  /\ UNCHANGED <<hvacOptions, running, monitoring, haConnected, subscribed,
                 machineState, context, stateAge, lastDefrost>>

\* handleStateChange gets a numeric state of the indoor sensor and asks the
\* gateway for the outdoor sensor
stateChanged(newTemp) ==
  /\ subscribed
  /\ haConnected
  /\ fibers["sensor"].pc = "idle"
  /\ RunStep("sensor", "reading", [NoRunInFlight EXCEPT !.pc = "reading", !.indoor = newTemp])

\* the monitoring fiber wakes up and asks the gateway for both sensors
monitorWakes ==
  /\ monitoring
  /\ haConnected
  /\ fibers["monitor"].pc = "idle"
  /\ RunStep("monitor", "reading", [NoRunInFlight EXCEPT !.pc = "reading"])

\* the reads of run f have returned rd: updateStateMachineTemperatures and
\* evaluateAndExecute up to the decision to actuate
runEvaluates(f, rd) ==
  /\ fibers[f].pc = "reading"
  /\ LET indoor == IF f = "sensor" THEN fibers[f].indoor ELSE rd.indoor
         outdoor == OutdoorOrFallback(rd.outdoor)
         r == UpdateThenEvaluate(hvacOptions, CurrentActor, indoor, outdoor,
                                 rd.hour, rd.isWeekday)
     IN  /\ SetActor(r.actor)
         /\ lastOp' = Op(f, "evaluated", "ok", r, Undefined, SentBy(r))
         /\ fibers' = [fibers EXCEPT ![f] =
                         [pc |-> IF r.mode = "none" THEN "idle" ELSE "acting",
                          indoor |-> indoor, outdoor |-> outdoor,
                          isWeekday |-> rd.isWeekday, mode |-> r.mode]]
  /\ cmds' = NoCalls
  /\ UNCHANGED <<hvacOptions, running, monitoring, haConnected, subscribed>>

\* executeHVACMode of run f: its batch of gateway calls
runActuates(f) ==
  /\ fibers[f].pc = "acting"
  /\ \E failAt \in Failures(hvacOptions) :
       cmds' = executeHVACMode(hvacOptions, fibers[f].mode, Undefined, failAt)
  /\ lastOp' = Op(f, "actuated", "ok", [NoRun(CurrentActor) EXCEPT !.mode = fibers[f].mode],
                  Undefined, << >>)
  /\ fibers' = [fibers EXCEPT ![f] = NoRunInFlight]
  /\ UNCHANGED <<hvacOptions, running, monitoring, haConnected, subscribed,
                 machineState, context, stateAge, lastDefrost>>

ConcurrentInit ==
  /\ Init
  /\ hvacOptions = [systemMode |-> "auto", overlap |-> FALSE, hasActiveHours |-> TRUE,
                    enabled |-> Devices]

ConcurrentNext ==
  \/ \E rd \in OneReading : start("none", rd)
  \/ \E newTemp \in ConcurrentIndoor : stateChanged(newTemp)
  \/ monitorWakes
  \/ \E f \in Producers, rd \in ConcurrentReadings : runEvaluates(f, rd)
  \/ \E f \in Producers : runActuates(f)

ConcurrentSpec == ConcurrentInit /\ [][ConcurrentNext]_vars

\* ------------------------------------------------------------------------
\* Status and efficiency queries, with or without the advisory agent.  The
\* agent is opaque: a call to it succeeds or fails.
\* ------------------------------------------------------------------------

AgentOutcomes == {"ok", "fail"}

\* the path a query takes: appOptions.useAi && hvacAgent, and how the
\* agent's call ends
QueryPath(agent) ==
  IF ~hvacOptions.aiEnabled THEN "direct"
  ELSE IF agent = "ok" THEN "advisory" ELSE "advisory failed"

\* getStatus(): the agent's failure is caught and the status is returned
\* without aiAnalysis
getStatus(agent) ==
  /\ agent \in AgentOutcomes
  /\ Refused("getStatus", QueryPath(agent), "ok", Undefined)

\* evaluateEfficiency(): fails when the controller is not running; a failure
\* of the agent reaches the outer catchAll, which fails the call
evaluateEfficiency(agent) ==
  IF ~running THEN Refused("evaluateEfficiency", "not running", "fail", Undefined)
  ELSE Refused("evaluateEfficiency", QueryPath(agent),
               IF QueryPath(agent) = "advisory failed" THEN "fail" ELSE "ok", Undefined)

AdvisoryOptions ==
  {[systemMode |-> "auto", overlap |-> FALSE, hasActiveHours |-> TRUE, enabled |-> Devices,
    aiEnabled |-> ai] : ai \in BOOLEAN}

AdvisoryInit ==
  /\ hvacOptions \in AdvisoryOptions
  /\ running = FALSE
  /\ monitoring = FALSE
  /\ haConnected = FALSE
  /\ subscribed = FALSE
  /\ machineState = "stopped"
  /\ context = machine
  /\ stateAge = 0
  /\ lastDefrost = Undefined
  /\ lastOp = [op |-> "init", arg |-> "", result |-> "ok", ran |-> FALSE, again |-> FALSE,
               before |-> "stopped", mode |-> "none", target |-> Undefined, sent |-> << >>]
  /\ cmds = NoCalls
  /\ fibers = NoFibers

\* with the agent enabled the initial evaluation is the agent's, and the
\* machine is left as started
AdvisoryNext ==
  \/ \E rd \in IF running \/ hvacOptions.aiEnabled THEN OneReading ELSE Readings :
       start("none", rd)
  \/ stop
  \/ \E agent \in AgentOutcomes : getStatus(agent)
  \/ \E agent \in AgentOutcomes : evaluateEfficiency(agent)
  \/ monitorInterrupted
  \/ after
  \/ Tick

AdvisorySpec == AdvisoryInit /\ [][AdvisoryNext]_vars

\* ------------------------------------------------------------------------
\* The strategies on their own: HeatingStrategy and CoolingStrategy applied
\* to readings, with the defrost clock of the HeatingStrategy instance
\* ------------------------------------------------------------------------

StrategyIndoor == {Undefined, NotANumber, 0, 17, 19, 20, 21, 22, 24, 26}

StrategyOutdoor == {Undefined, NotANumber, -11, -10, 0, 12, 15, 46}

StrategyHours == {6, 7, 8, 21, 22}

\* instants, in seconds after startDefrost(), at which the strategy is asked
AgeSamples == {1, 299, 300}

StrategyOptions ==
  [systemMode : {"auto"}, overlap : BOOLEAN, hasActiveHours : BOOLEAN, enabled : {Devices}]

StrategyInit ==
  /\ hvacOptions \in StrategyOptions
  /\ running = FALSE
  /\ monitoring = FALSE
  /\ haConnected = FALSE
  /\ subscribed = FALSE
  /\ machineState = "stopped"
  /\ context \in [indoorTemp : StrategyIndoor, outdoorTemp : StrategyOutdoor,
                  currentHour : StrategyHours, isWeekday : BOOLEAN, systemMode : {"auto"}]
  /\ stateAge = 0
  /\ lastDefrost = Undefined
  /\ lastOp = [op |-> "init"]
  /\ cmds = NoCalls
  /\ fibers = NoFibers

\* the three decisions of the strategies on the readings, and the five
\* guards of the machine on a context holding them
applyStrategies ==
  /\ lastOp' = [op |-> "strategies",
                shouldHeat |-> shouldHeat(hvacOptions, StateChangeData(context)),
                shouldCool |-> shouldCool(hvacOptions, StateChangeData(context)),
                needsDefrost |-> needsDefrost(StateChangeData(context), lastDefrost),
                guards |-> {g \in {"canHeat", "canCool", "shouldAutoHeat",
                                   "shouldAutoCool", "canDefrost"} :
                             CASE g = "canHeat" -> canHeat(hvacOptions, context)
                               [] g = "canCool" -> canCool(hvacOptions, context)
                               [] g = "shouldAutoHeat" -> shouldAutoHeat(hvacOptions, context)
                               [] g = "shouldAutoCool" -> shouldAutoCool(hvacOptions, context)
                               [] g = "canDefrost" -> canDefrost(context, lastDefrost)},
                age |-> lastDefrost]
  /\ UNCHANGED <<hvacOptions, running, monitoring, haConnected, subscribed,
                 machineState, context, stateAge, lastDefrost, cmds, fibers>>

\* HeatingStrategy.startDefrost: lastDefrost = new Date()
startDefrost ==
  /\ lastDefrost' = 0
  /\ lastOp' = [op |-> "startDefrost"]
  /\ UNCHANGED <<hvacOptions, running, monitoring, haConnected, subscribed,
                 machineState, context, stateAge, cmds, fibers>>

\* time passes up to a later instant at which the strategy is asked
Elapse(age) ==
  /\ lastDefrost # Undefined
  /\ age > lastDefrost
  /\ lastDefrost' = age
  /\ lastOp' = [op |-> "elapse"]
  /\ UNCHANGED <<hvacOptions, running, monitoring, haConnected, subscribed,
                 machineState, context, stateAge, cmds, fibers>>

StrategyNext ==
  \/ applyStrategies
  \/ startDefrost
  \/ \E age \in AgeSamples : Elapse(age)

StrategySpec == StrategyInit /\ [][StrategyNext]_vars

\* ------------------------------------------------------------------------
\* Properties
\* ------------------------------------------------------------------------

\* C1: a run of evaluateAndExecute actuates if and only if the state after
\* AUTO_EVALUATE resolves to a mode (heating and defrosting to heat, cooling
\* to cool, idle to off) and differs from the state before or is
\* manualOverride; then every enabled device is sent that mode, and in every
\* other case no gateway call is made.
C1_ActuatesIffResolvedAndChanged ==
  lastOp.ran =>
    LET resolved == CASE machineState \in {"heating", "defrosting"} -> "heat"
                      [] machineState = "cooling" -> "cool"
                      [] machineState = "idle" -> "off"
                      [] OTHER -> "none"
        due == /\ resolved # "none"
               /\ machineState # lastOp.before \/ machineState = "manualOverride"
    IN  /\ due => /\ lastOp.mode = resolved
                  /\ \A d \in hvacOptions.enabled :
                       /\ Len(cmds[d]) >= 1
                       /\ cmds[d][1].service = "set_hvac_mode"
                       /\ cmds[d][1].hvac_mode = resolved
        /\ ~due => lastOp.mode = "none" /\ cmds = NoCalls

\* a run took the machine from cooling to heating and both devices got calls
C1_Witness ==
  /\ lastOp.ran
  /\ lastOp.before = "cooling"
  /\ machineState = "heating"
  /\ \A d \in Devices : Len(cmds[d]) = 3

\* C2: a run of update-then-evaluate that directly follows a run which left
\* the same context (the same temperatures pushed again) makes no gateway
\* call, also when the machine left and re-entered its state.
C2_SecondRunIssuesNothing ==
  lastOp.again => lastOp.mode = "none" /\ cmds = NoCalls

\* the repeated run went heating -> evaluating -> heating
C2_Witness ==
  /\ lastOp.again
  /\ lastOp.before = "heating"
  /\ machineState = "heating"
  /\ hvacOptions.enabled = Devices

\* C3: AUTO_EVALUATE sent in idle, heating, cooling or manualOverride ends
\* in heating if systemMode is auto and shouldHeat holds for the context,
\* otherwise in cooling if systemMode is auto and shouldCool holds,
\* otherwise in idle.
C3_AutoEvaluateFollowsStrategies ==
  ( /\ lastOp.op = "machine.send"
    /\ lastOp.sent = << "AUTO_EVALUATE" >>
    /\ lastOp.before \in {"idle", "heating", "cooling", "manualOverride"}
    /\ context.indoorTemp # Undefined
    /\ context.outdoorTemp # Undefined )
  => machineState =
       IF context.systemMode = "auto" /\ shouldHeat(hvacOptions, StateChangeData(context))
         THEN "heating"
       ELSE IF context.systemMode = "auto" /\ shouldCool(hvacOptions, StateChangeData(context))
         THEN "cooling"
       ELSE "idle"

\* C4: a start of the machine puts it in idle; after every event and timer
\* firing the machine is in one of the five resting states, never in
\* evaluating; an event changes the state only where the table of the state
\* it was sent in has a transition for it.
C4_StartsIdleAndRests ==
  /\ machineState \in {"stopped", "idle", "heating", "cooling", "defrosting", "manualOverride"}
  /\ (lastOp.op = "machine.start" /\ lastOp.result = "ok") => machineState = "idle"
  /\ (lastOp.op = "after" \/ (lastOp.op = "machine.send" /\ lastOp.result = "ok"))
       => machineState # "stopped"
  /\ (lastOp.op = "machine.send" /\ machineState # lastOp.before)
       => << lastOp.before, lastOp.arg >> \in
            ({"idle"} \X {"HEAT", "COOL", "AUTO_EVALUATE", "MANUAL_OVERRIDE"})
            \cup ({"heating"} \X {"OFF", "COOL", "DEFROST_NEEDED", "AUTO_EVALUATE",
                                  "MANUAL_OVERRIDE"})
            \cup ({"cooling"} \X {"OFF", "HEAT", "AUTO_EVALUATE", "MANUAL_OVERRIDE"})
            \cup ({"defrosting"} \X {"OFF", "DEFROST_COMPLETE", "MANUAL_OVERRIDE"})
            \cup ({"manualOverride"} \X {"AUTO_EVALUATE"})

\* the machine was started again after a life in which it had defrosted
C4_Witness ==
  /\ lastOp.op = "machine.start"
  /\ lastOp.result = "ok"
  /\ machineState = "idle"
  /\ lastDefrost # Undefined

\* C5: manualOverride('heat', {temperature: T}) on a running controller
\* leaves the machine in manualOverride, sends every enabled device
\* set_hvac_mode heat and set_temperature T, and reports success.
C5_OverrideHeatSendsTarget ==
  (lastOp.op = "manualOverride" /\ lastOp.mode = "heat" /\ lastOp.target # Undefined) =>
    /\ machineState = "manualOverride"
    /\ lastOp.result = "ok"
    /\ \A d \in hvacOptions.enabled :
         /\ \E i \in 1..Len(cmds[d]) :
              cmds[d][i].service = "set_hvac_mode" /\ cmds[d][i].hvac_mode = "heat"
         /\ \E i \in 1..Len(cmds[d]) :
              cmds[d][i].service = "set_temperature" /\ cmds[d][i].temperature = lastOp.target

\* C6: with no event, a machine in manualOverride stays there until 1800 s
\* have passed since it entered, and the step taken then leaves it in
\* heating, cooling or idle as the strategies decide for its context.
C6_OverrideRevertsAfter1800 ==
  [][ (machineState = "manualOverride" /\ lastOp'.op \in {"tick", "after"}) =>
        IF stateAge < 1800
          THEN machineState' = "manualOverride" /\ stateAge' > stateAge
          ELSE machineState' =
                 IF context.systemMode = "auto" /\ context.indoorTemp # Undefined
                    /\ context.outdoorTemp # Undefined
                    /\ shouldHeat(hvacOptions, StateChangeData(context))
                   THEN "heating"
                 ELSE IF context.systemMode = "auto" /\ context.indoorTemp # Undefined
                         /\ context.outdoorTemp # Undefined
                         /\ shouldCool(hvacOptions, StateChangeData(context))
                   THEN "cooling"
                 ELSE "idle" ]_vars

\* C7: while the machine is in manualOverride and fewer than 1800 s have
\* passed, a sensor change or a monitor cycle leaves it in manualOverride
\* and makes no gateway call.
C7_OverrideHoldsAgainstEvaluation ==
  [][ (machineState = "manualOverride" /\ stateAge < 1800
       /\ lastOp'.op \in {"sensor", "monitor"})
      => machineState' = "manualOverride" /\ cmds' = NoCalls ]_vars

\* C8: manualOverride with an action that is none of heat, cool, off ends
\* in a typed failure, sends no event and makes no gateway call.
C8_InvalidActionFailsTyped ==
  (lastOp.op = "manualOverride"
   /\ lastOp.arg \notin {"heat", "cool", "off", "HEAT", "COOL", "OFF"}) =>
    /\ lastOp.result = "fail"
    /\ lastOp.sent = << >>
    /\ cmds = NoCalls

\* C9: on a controller that is not running, manualOverride and
\* triggerEvaluation end in a failure reported to the caller, send no event
\* and make no gateway call.
C9_NotRunningRefuses ==
  (~running /\ lastOp.op \in {"manualOverride", "triggerEvaluation"}) =>
    /\ lastOp.result = "fail"
    /\ lastOp.sent = << >>
    /\ lastOp.mode = "none"
    /\ cmds = NoCalls

\* a valid override was asked of a stopped controller
C9_Witness ==
  /\ ~running
  /\ lastOp.op = "manualOverride"
  /\ lastOp.arg = "heat"
  /\ lastOp.result = "fail"

C12_StopNeverFailsAndIsIdempotent ==
  [][lastOp'.op = "stop"
       => /\ lastOp'.result = "ok"
          /\ ~running'
          /\ machineState' = "stopped"
          /\ context' = machine
          /\ stateAge' = 0
          /\ ~haConnected'
          /\ ~subscribed'
          /\ cmds' = NoCalls
          /\ lastOp.op = "stop"
               => UNCHANGED <<running, machineState, context, stateAge, lastDefrost,
                              haConnected, subscribed>>]_vars

\* stop() has returned from a call on a controller that was not running
C12_Witness ==
  /\ lastOp.op = "stop"
  /\ lastOp.arg = "stopped"
  /\ lastOp.result = "ok"
  /\ ~running
  /\ machineState = "stopped"
  /\ ~haConnected

\* C13: while the controller is not running (stop() has returned, or
\* start() was never called), no cycle of the periodic monitor starts and no
\* machine timer fires: no step other than a start() changes the machine
\* state or issues gateway calls.
C13_NothingRunsAfterStop ==
  [][(~running /\ lastOp'.op # "start")
       => /\ lastOp'.op \notin {"monitor", "after"}
          /\ machineState' = machineState
          /\ cmds' = NoCalls]_vars

\* the services called for device d in the last actuation batch, in order
ServicesSent(d) == [i \in 1..Len(cmds[d]) |-> cmds[d][i].service]

\* the command sequence of an actuation of mode m
FullSequence(m) ==
  IF m = "off" THEN << "set_hvac_mode" >>
  ELSE << "set_hvac_mode", "set_temperature", "set_preset_mode" >>

\* C14: a disabled device never receives a command; in an actuation of mode
\* m every enabled device receives set-mode (carrying m), then
\* set-temperature, then set-preset, the last two not at all when m = off;
\* the sequence is complete unless one of the device's own calls fails, and
\* nothing follows a failed call.
C14_EnabledDevicesInOrder ==
  \A d \in Devices :
    /\ d \notin hvacOptions.enabled => cmds[d] = << >>
    /\ lastOp.mode = "none" => cmds[d] = << >>
    /\ (d \in hvacOptions.enabled /\ lastOp.mode # "none")
         => /\ Len(cmds[d]) >= 1
            /\ Len(cmds[d]) <= Len(FullSequence(lastOp.mode))
            /\ ServicesSent(d) = SubSeq(FullSequence(lastOp.mode), 1, Len(cmds[d]))
            /\ cmds[d][1].hvac_mode = lastOp.mode
            /\ \A i \in 1..(Len(cmds[d]) - 1) : cmds[d][i].ok
            /\ cmds[d][Len(cmds[d])].ok => ServicesSent(d) = FullSequence(lastOp.mode)

\* a heat actuation with one device enabled and the other disabled
C14_Witness ==
  /\ hvacOptions.enabled = {"climate.living_room_ac"}
  /\ lastOp.mode = "heat"
  /\ ServicesSent("climate.living_room_ac")
       = << "set_hvac_mode", "set_temperature", "set_preset_mode" >>
  /\ cmds["climate.bedroom_ac"] = << >>

\* a gateway call for device d failed in the last actuation batch
CallFailed(d) == cmds[d] # << >> /\ ~cmds[d][Len(cmds[d])].ok

\* C15: when a gateway call for one device fails during an actuation batch,
\* every other enabled device still receives its full command sequence, all
\* of it successful, and the operation that actuated ends without failure.
C15_FailureStaysWithItsDevice ==
  \A d \in Devices :
    CallFailed(d)
      => /\ lastOp.result = "ok"
         /\ \A e \in hvacOptions.enabled \ {d} :
              /\ ServicesSent(e) = FullSequence(lastOp.mode)
              /\ \A i \in 1..Len(cmds[e]) : cmds[e][i].ok

\* set-temperature failed for the first device while the second is enabled
C15_Witness ==
  /\ hvacOptions.enabled = Devices
  /\ CallFailed("climate.living_room_ac")
  /\ Len(cmds["climate.living_room_ac"]) = 2
  /\ Len(cmds["climate.bedroom_ac"]) = 3
  /\ lastOp.op \in {"manualOverride", "monitor", "sensor", "triggerEvaluation", "start"}

\* the policy of the actuated mode
PolicyOf(m) == IF m = "heat" THEN heating ELSE coolingOf(hvacOptions.overlap)

\* C16: every set-temperature call carries the explicit target temperature
\* when one was supplied, whatever its value, and otherwise the target
\* temperature of the actuated mode's policy; every set-preset call carries
\* the preset of that policy.
C16_ExplicitTargetElsePolicy ==
  \A d \in Devices :
    \A i \in 1..Len(cmds[d]) :
      /\ cmds[d][i].service = "set_temperature"
           => cmds[d][i].temperature =
                IF lastOp.target # Undefined THEN lastOp.target
                ELSE PolicyOf(lastOp.mode).temperature
      /\ cmds[d][i].service = "set_preset_mode"
           => cmds[d][i].preset_mode = PolicyOf(lastOp.mode).presetMode

\* C17: an OFF event sent to the machine in Heating, Cooling or Defrosting
\* is accepted and leaves it in Idle with the context untouched, whatever
\* the context and the systemMode are.
C17_OffAlwaysYieldsIdle ==
  [][(/\ lastOp'.op = "machine.send"
      /\ lastOp'.arg = "OFF"
      /\ machineState \in {"heating", "cooling", "defrosting"})
       => /\ lastOp'.result = "ok"
          /\ machineState' = "idle"
          /\ context' = context]_vars

\* OFF has taken the machine from Heating to Idle although canHeat holds
C17_Witness ==
  /\ lastOp.op = "machine.send"
  /\ lastOp.arg = "OFF"
  /\ lastOp.before = "heating"
  /\ machineState = "idle"
  /\ canHeat(hvacOptions, context)

\* C18: a HEAT event sent while context.systemMode is cool_only or off, and
\* a COOL event sent while it is heat_only or off, is accepted without
\* error and changes nothing: the machine stays in the state it is in, with
\* its context and its running timer.
C18_BlockedHeatAndCoolStay ==
  [][(/\ lastOp'.op = "machine.send"
      /\ machineState # "stopped"
      /\ \/ lastOp'.arg = "HEAT" /\ context.systemMode \in {"cool_only", "off"}
         \/ lastOp'.arg = "COOL" /\ context.systemMode \in {"heat_only", "off"})
       => /\ lastOp'.result = "ok"
          /\ machineState' = machineState
          /\ context' = context
          /\ stateAge' = stateAge]_vars

\* HEAT was sent in cool_only to an idle machine whose readings make
\* shouldHeat true, and the machine is still idle
C18_Witness ==
  /\ lastOp.op = "machine.send"
  /\ lastOp.arg = "HEAT"
  /\ lastOp.result = "ok"
  /\ lastOp.before = "idle"
  /\ machineState = "idle"
  /\ context.systemMode = "cool_only"
  /\ Truthy(context.indoorTemp)
  /\ Truthy(context.outdoorTemp)
  /\ shouldHeat(hvacOptions, StateChangeData(context))

\* both readings of the machine context are present
ReadingsPresent == context.indoorTemp # Undefined /\ context.outdoorTemp # Undefined

\* C19: on the machine's context, every guard is false when a reading is
\* absent; when both readings are present, whatever their values, each guard
\* whose action the systemMode permits equals the decision of its strategy
\* on these readings (shouldHeat for canHeat and shouldAutoHeat, shouldCool
\* for canCool and shouldAutoCool, needsDefrost for canDefrost).
C19_GuardsEqualStrategies ==
  LET data == StateChangeData(context)
      mode == context.systemMode
  IN  /\ ~ReadingsPresent
           => /\ ~canHeat(hvacOptions, context)
              /\ ~canCool(hvacOptions, context)
              /\ ~shouldAutoHeat(hvacOptions, context)
              /\ ~shouldAutoCool(hvacOptions, context)
              /\ ~canDefrost(context, lastDefrost)
      /\ ReadingsPresent
           => /\ mode \notin {"cool_only", "off"}
                   => canHeat(hvacOptions, context) = shouldHeat(hvacOptions, data)
              /\ mode \notin {"heat_only", "off"}
                   => canCool(hvacOptions, context) = shouldCool(hvacOptions, data)
              /\ mode = "auto"
                   => /\ shouldAutoHeat(hvacOptions, context) = shouldHeat(hvacOptions, data)
                      /\ shouldAutoCool(hvacOptions, context) = shouldCool(hvacOptions, data)
              /\ canDefrost(context, lastDefrost) = needsDefrost(data, lastDefrost)

\* C20: the systemMode in the machine's context is the one the machine was
\* constructed with, after every sequence of events and timer firings.
C20_SystemModeNeverChanges == context.systemMode = hvacOptions.systemMode

\* the reading lies strictly between indoorMin and indoorMax of thresholds
InBand(thresholds, temp) ==
  IsNumber(temp) /\ thresholds.indoorMin < temp /\ temp < thresholds.indoorMax

InActiveWindow ==
  \/ ~hvacOptions.hasActiveHours
  \/ /\ context.currentHour >=
          (IF context.isWeekday THEN activeHours.startWeekday ELSE activeHours.start)
     /\ context.currentHour <= activeHours.end

\* the outdoor reading lies in the outdoor range of thresholds, ends included
InOutdoorRange(thresholds) ==
  /\ IsNumber(context.outdoorTemp)
  /\ thresholds.outdoorMin <= context.outdoorTemp
  /\ context.outdoorTemp <= thresholds.outdoorMax

C23_DefrostPeriodRespected ==
  (lastOp.op = "strategies" /\ lastDefrost # Undefined)
    => /\ lastDefrost < heating.defrost.periodSeconds => ~lastOp.needsDefrost
       /\ (/\ lastDefrost >= heating.defrost.periodSeconds
           /\ IsNumber(context.outdoorTemp)
           /\ context.outdoorTemp <= heating.defrost.temperatureThreshold)
            => lastOp.needsDefrost

\* needsDefrost was asked one second before the period ended, with an outdoor
\* temperature below the threshold
C23_Witness ==
  /\ lastOp.op = "strategies"
  /\ lastDefrost = heating.defrost.periodSeconds - 1
  /\ context.outdoorTemp = -11
  /\ ~lastOp.needsDefrost

\* C24: for a reading whose indoor or outdoor temperature is NaN or missing,
\* shouldHeat, shouldCool and needsDefrost are false, and no guard of the
\* machine holds, so that no transition to Heating, Cooling or Defrosting
\* is enabled by it.
C24_InvalidReadingNeverActs ==
  (lastOp.op = "strategies"
     /\ (~IsNumber(context.indoorTemp) \/ ~IsNumber(context.outdoorTemp)))
    => /\ ~lastOp.shouldHeat
       /\ ~lastOp.shouldCool
       /\ ~lastOp.needsDefrost
       /\ lastOp.guards = {}

\* C25: a state_changed event about another entity, or about the indoor
\* sensor with no new state or with a state that parseFloat maps to NaN, is
\* ignored: no event is sent to the machine, evaluate-and-execute does not
\* run, the machine keeps its state, context and timer, and no gateway call
\* is made.
C25_InvalidSensorEventIgnored ==
  [][(lastOp'.op = "sensor" /\ lastOp'.arg \in {"other", "noNewState", "notANumber"})
       => /\ lastOp'.result = "ok"
          /\ lastOp'.sent = << >>
          /\ ~lastOp'.ran
          /\ cmds' = NoCalls
          /\ UNCHANGED <<machineState, context, stateAge, lastDefrost>>]_vars

\* a non-numeric indoor state arrived while the machine was heating
C25_Witness ==
  /\ lastOp.op = "sensor"
  /\ lastOp.arg = "notANumber"
  /\ lastOp.before = "heating"
  /\ machineState = "heating"

\* C26: when a numeric indoor sensor change is handled and the outdoor
\* reading cannot be fetched, the handler ends without failure, having sent
\* UPDATE_TEMPERATURES and then run evaluate-and-execute; in the states that
\* handle UPDATE_TEMPERATURES the context then holds a numeric indoor value
\* and the outdoor value 20.
C26_OutdoorFallbackOnSensorChange ==
  (lastOp.op = "sensor" /\ lastOp.arg = "outdoor fallback")
    => /\ lastOp.result = "ok"
       /\ lastOp.ran
       /\ lastOp.sent = << "UPDATE_TEMPERATURES", "AUTO_EVALUATE" >>
       /\ lastOp.before \in {"idle", "heating", "cooling", "manualOverride"}
            => /\ context.outdoorTemp = FallbackOutdoor
               /\ context.indoorTemp \in IndoorReadings

\* an indoor change to 26 with no outdoor reading has started cooling on the
\* fallback value
C26_Witness ==
  /\ lastOp.op = "sensor"
  /\ lastOp.arg = "outdoor fallback"
  /\ context.indoorTemp = 26
  /\ context.outdoorTemp = FallbackOutdoor
  /\ lastOp.before = "idle"
  /\ machineState = "cooling"
  /\ lastOp.mode = "cool"

\* C27: a cycle of the periodic monitor in which the indoor sensor cannot be
\* read, or has no numeric state, ends without failure and without effect:
\* no event is sent to the machine, evaluate-and-execute does not run, the
\* machine keeps its state, context and timer, no gateway call is made, and
\* the monitor is still alive for its next cycle.
C27_UnreadableIndoorAbortsOneCycle ==
  [][(lastOp'.op = "monitor" /\ lastOp'.arg = "no indoor value")
       => /\ lastOp'.result = "ok"
          /\ lastOp'.sent = << >>
          /\ ~lastOp'.ran
          /\ cmds' = NoCalls
          /\ monitoring'
          /\ UNCHANGED <<running, machineState, context, stateAge, lastDefrost>>]_vars

\* a monitor cycle without indoor value has passed on a running controller
\* whose machine is heating
C27_Witness ==
  /\ lastOp.op = "monitor"
  /\ lastOp.arg = "no indoor value"
  /\ running
  /\ monitoring
  /\ lastOp.before = "heating"
  /\ machineState = "heating"

\* C28: getStatus() and evaluateEfficiency() leave the machine state, its
\* context and timers alone and make no gateway call, and when the advisory
\* agent fails during the call, the call still succeeds.
C28_QueriesReadOnlyAndNeverFailOnAdvisory ==
  [][lastOp'.op \in {"getStatus", "evaluateEfficiency"}
       => /\ UNCHANGED <<running, monitoring, haConnected, subscribed,
                         machineState, context, stateAge, lastDefrost>>
          /\ cmds' = NoCalls
          /\ lastOp'.sent = << >>
          /\ lastOp'.arg = "advisory failed" => lastOp'.result = "ok"]_vars

\* C29: the timer of heating or cooling fires when the state has been held
\* for 300 s without a transition, and leaves the machine exactly where
\* AUTO_EVALUATE would; the timer of defrosting fires after durationSeconds
\* (300 s) and leaves the machine in heating.
C29_TimedTransitions ==
  [][/\ machineState \in {"heating", "cooling", "defrosting"} => stateAge <= 300
     /\ lastOp'.op = "after" /\ machineState \in {"heating", "cooling"}
          => /\ stateAge = 300
             /\ CurrentActor' = Transition(hvacOptions, CurrentActor, PlainEvent("AUTO_EVALUATE"))
     /\ lastOp'.op = "after" /\ machineState = "defrosting"
          => /\ stateAge = heating.defrost.durationSeconds
             /\ stateAge = 300
             /\ machineState' = "heating"]_vars

\* heating was held for 300 s and the re-evaluation left it
C29_Witness ==
  /\ lastOp.op = "after"
  /\ lastOp.before = "heating"
  /\ machineState \in {"idle", "cooling"}

C31_GuardsSeeCompletedUpdates ==
  [][\A f \in Producers :
       fibers[f].pc = "reading" /\ fibers'[f].pc # "reading" /\ machineState # "stopped"
         => /\ lastOp'.sent = << "UPDATE_TEMPERATURES", "AUTO_EVALUATE" >>
            /\ context'.indoorTemp = fibers'[f].indoor
            /\ context'.outdoorTemp = fibers'[f].outdoor
            /\ context'.isWeekday = fibers'[f].isWeekday
            /\ context'.currentHour \in Hours
            /\ machineState' = (IF shouldAutoHeat(hvacOptions, context') THEN "heating"
                                ELSE IF shouldAutoCool(hvacOptions, context') THEN "cooling"
                                ELSE "idle")]_vars

\* a run evaluates while the other producer's run is in flight, and the
\* outdoor value and weekday flag it brings differ from those in the context
C31_Witness ==
  /\ lastOp.op = "sensor"
  /\ lastOp.arg = "evaluated"
  /\ fibers["monitor"].pc = "acting"
  /\ fibers["monitor"].outdoor # fibers["sensor"].outdoor
  /\ fibers["monitor"].isWeekday # fibers["sensor"].isWeekday
  /\ context.outdoorTemp = fibers["sensor"].outdoor

\* C32: with the 1800 s auto-revert due, a MANUAL_OVERRIDE event and the
\* revert are each processed without error in whichever order they come: an
\* override handled first leaves the revert due, a revert handled first is
\* followed by an override that enters manualOverride, and the context is
\* the same after each of them.
C32_OverrideAndRevertInEitherOrder ==
  [][/\ /\ machineState = "manualOverride"
        /\ stateAge = 1800
        /\ lastOp'.op = "machine.send"
        /\ lastOp'.arg = "MANUAL_OVERRIDE"
        => /\ lastOp'.result = "ok"
           /\ machineState' = "manualOverride"
           /\ stateAge' = 1800
           /\ context' = context
     /\ machineState = "manualOverride" /\ lastOp'.op = "after"
        => /\ stateAge = 1800
           /\ lastOp'.result = "ok"
           /\ machineState' \in {"idle", "heating", "cooling"}
           /\ context' = context
     /\ /\ machineState \in {"idle", "heating", "cooling"}
        /\ lastOp'.op = "machine.send"
        /\ lastOp'.arg = "MANUAL_OVERRIDE"
        => /\ lastOp'.result = "ok"
           /\ machineState' = "manualOverride"
           /\ stateAge' = 0
           /\ context' = context]_vars

\* the override was handled first, with the revert due and readings in the
\* context
C32_Witness ==
  /\ lastOp.op = "machine.send"
  /\ lastOp.arg = "MANUAL_OVERRIDE"
  /\ lastOp.before = "manualOverride"
  /\ stateAge = 1800
  /\ context.indoorTemp = 19

\* C33: after a manual override has put the machine into manualOverride,
\* the status of the machine holds the forced mode and the forced
\* temperature of that override.
C33_OverrideReadBackFromStatus ==
  /\ lastOp.op = "manualOverride"
  /\ lastOp.result = "ok"
  /\ machineState = "manualOverride"
  => /\ ForcedMode(MachineStatus) = lastOp.mode
     /\ ForcedTemperature(MachineStatus) = lastOp.target

\* the position of a step in the program order of an operation, 0 if the
\* operation does not perform it
Position(order, step) ==
  IF \E i \in 1..Len(order) : order[i] = step
    THEN CHOOSE i \in 1..Len(order) : order[i] = step
    ELSE 0

\* C34: a manual override that commands a device has sent MANUAL_OVERRIDE to
\* the machine, and sent it before it commanded the first device.
C34_EventBeforeActuation ==
  lastOp.op = "manualOverride" /\ lastOp.mode # "none" /\ cmds # NoCalls
    => /\ lastOp.sent = << "MANUAL_OVERRIDE" >>
       /\ Position(lastOp.order, "stateMachineManualOverride")
            < Position(lastOp.order, "executeHVACMode")

\* C35: while the machine rests in heating, cooling or idle, the mode last
\* commanded to the devices is the mode of the machine's state: right after
\* an operation that commanded them, and still after a transition the
\* machine then makes on one of its timers.
C35_DevicesFollowMachine ==
  [][/\ cmds' # NoCalls /\ machineState' \in {"heating", "cooling", "idle"}
        => lastOp'.mode = getCurrentHVACMode(machineState')
     /\ lastOp'.op = "after" /\ cmds # NoCalls /\ machineState' \in {"heating", "cooling", "idle"}
        => lastOp.mode = getCurrentHVACMode(machineState')]_vars

\* C36: the orchestrator sends only UPDATE_TEMPERATURES, AUTO_EVALUATE and
\* MANUAL_OVERRIDE to the machine, and under its operations the machine is
\* never in defrosting.
C36_OrchestratorNeverDefrosts ==
  /\ \A i \in 1..Len(lastOp.sent) :
       lastOp.sent[i] \in {"UPDATE_TEMPERATURES", "AUTO_EVALUATE", "MANUAL_OVERRIDE"}
  /\ machineState # "defrosting"

\* an evaluation left the machine heating on readings for which the defrost
\* guard holds
C36_Witness ==
  /\ lastOp.ran
  /\ machineState = "heating"
  /\ context.outdoorTemp = -5
  /\ canDefrost(context, lastDefrost)

\* C37: in manualOverride the events MANUAL_OVERRIDE, HEAT, COOL and OFF
\* change neither the state nor the context and do not restart the timer,
\* which fires 1800 s after manualOverride was entered.
C37_OverrideIgnoresFurtherCommands ==
  [][/\ /\ machineState = "manualOverride"
        /\ lastOp'.op = "machine.send"
        /\ lastOp'.arg \in {"MANUAL_OVERRIDE", "HEAT", "COOL", "OFF"}
        => /\ machineState' = "manualOverride"
           /\ stateAge' = stateAge
           /\ context' = context
     /\ machineState = "manualOverride" => stateAge <= 1800
     /\ ~(machineState = "manualOverride" /\ stateAge = 1800 /\ lastOp'.op = "tick")]_vars

\* a second MANUAL_OVERRIDE arrived 900 s into the override
C37_Witness ==
  /\ lastOp.op = "machine.send"
  /\ lastOp.arg = "MANUAL_OVERRIDE"
  /\ lastOp.before = "manualOverride"
  /\ machineState = "manualOverride"
  /\ stateAge \in 1..1799

\* C38: in defrosting the events AUTO_EVALUATE, UPDATE_TEMPERATURES and
\* UPDATE_CONDITIONS change neither state nor context, a sensor-change or
\* monitoring run leaves the defrost alone and commands no device, and
\* defrosting is left only by OFF, DEFROST_COMPLETE, MANUAL_OVERRIDE or its
\* timer.
C38_DefrostingIgnoresEvaluation ==
  [][machineState = "defrosting"
       => /\ /\ lastOp'.op = "machine.send"
             /\ lastOp'.arg \in {"AUTO_EVALUATE", "UPDATE_TEMPERATURES", "UPDATE_CONDITIONS"}
             => /\ machineState' = "defrosting"
                /\ context' = context
                /\ stateAge' = stateAge
          /\ lastOp'.op \in {"sensor", "monitor"}
             => /\ machineState' = "defrosting"
                /\ context' = context
                /\ stateAge' = stateAge
                /\ cmds' = NoCalls
          /\ machineState' # "defrosting"
             => \/ lastOp'.op = "after"
                \/ /\ lastOp'.op = "machine.send"
                   /\ lastOp'.arg \in {"OFF", "DEFROST_COMPLETE", "MANUAL_OVERRIDE"}]_vars

\* a monitoring run sent its two events to a machine in defrosting
C38_Witness ==
  /\ lastOp.op = "monitor"
  /\ lastOp.ran
  /\ lastOp.before = "defrosting"
  /\ lastOp.sent = << "UPDATE_TEMPERATURES", "AUTO_EVALUATE" >>
  /\ machineState = "defrosting"

\* C39: with runs of the two producers overlapping, a run's snapshots are
\* the machine's states just before and just after its own AUTO_EVALUATE,
\* it queues a batch exactly when these differ, the batch carries the mode
\* of the state reached and is executed once, the other producer's run is
\* left as it is, and no batch is executed that was not queued.
C39_OneBatchPerStateChange ==
  [][/\ \A f \in Producers :
          fibers[f].pc = "reading" /\ fibers'[f].pc # "reading"
            => /\ lastOp'.before = machineState
               /\ (fibers'[f].pc = "acting") = (machineState' # machineState)
               /\ fibers'[f].pc = "acting"
                    => fibers'[f].mode = getCurrentHVACMode(machineState')
               /\ cmds' = NoCalls
               /\ \A g \in Producers \ {f} : fibers'[g] = fibers[g]
     /\ \A f \in Producers :
          fibers[f].pc = "acting" /\ fibers'[f].pc # "acting"
            => /\ fibers'[f].pc = "idle"
               /\ \A d \in hvacOptions.enabled :
                    /\ cmds'[d] # << >>
                    /\ cmds'[d][1].hvac_mode = fibers[f].mode
               /\ UNCHANGED <<machineState, context>>
               /\ \A g \in Producers \ {f} : fibers'[g] = fibers[g]
     /\ cmds' # NoCalls
          => \E f \in Producers : fibers[f].pc = "acting" /\ fibers'[f].pc = "idle"]_vars

\* the batches of two state changes, one by each producer, are both pending
C39_Witness ==
  /\ fibers["sensor"].pc = "acting"
  /\ fibers["monitor"].pc = "acting"
  /\ fibers["sensor"].mode # fibers["monitor"].mode

====
